---- MODULE Spec2Model ----
(***************************************************************************)
(* A model of the batching/caching loader of data_loader.go:               *)
(* genericLoader (cache, batch, mu, maxBatch), genericLoaderBatch (keys,   *)
(* data, error, closing, done), the goroutines started by keyIndex         *)
(* (startTimer, end) and the thunks returned by LoadThunk.                 *)
(***************************************************************************)
EXTENDS Integers, Sequences, FiniteSets

\* ------------------------------------------------------------------ bounds
\* number of LoadThunk calls made in one run
MaxThunks == 2
\* number of batches created in one run
MaxBatches == 2

\* length of the key list handed to LoadAll
MaxLoadAll == 2

\* keys the callers ask for
Keys == {1, 2}
\* values of the maxBatch configuration field that are explored (0 = no limit)
MaxBatchChoices == {0, 1, 2}
\* values handed to Prime
PrimeValues == {91}

\* the nil *V and the nil error
NilVal == 0
NilErr == 0
\* the non-nil errors a fetch may report for a position
FetchErrs == {1}

\* the value the fetch function produces for key k when called for batch n:
\* every invocation allocates its own result, so the results of different
\* invocations are distinguishable
FetchVal(k, n) == 10 * k + n

VARIABLES
    maxBatch,   \* genericLoader.maxBatch
    cache,      \* genericLoader.cache: a function whose DOMAIN is the set of cached keys
    batch,      \* genericLoader.batch: 0 = nil, else the index of the batch in batches
    mu,         \* genericLoader.mu: 0 = unlocked, b = held by startTimer of batch b
    batches,    \* every genericLoaderBatch created so far, with its goroutines
    thunks,     \* every thunk LoadThunk has returned
    fetchLog,   \* the invocations of l.fetch, in order: [b, keys]
    cleared,    \* history: the keys Clear was called for, with no Prime or
                \* LoadThunk of the key since
    la          \* the caller of LoadAll / LoadAllThunk: its keys, results
                \* (the thunks it collected), users and errs

vars == <<maxBatch, cache, batch, mu, batches, thunks, fetchLog, cleared, la>>

\* ------------------------------------------------------------ pure helpers
Min(S) == CHOOSE x \in S : \A y \in S : x <= y

\* an unsafeSet that stores nothing
unsafeSetDropped(c, key, value) == c

\* an unsafeSet that does not store a nil value
unsafeSetSkipsNil(c, key, value) ==
    IF value = NilVal THEN c
    ELSE [k \in (DOMAIN c) \cup {key} |-> IF k = key THEN value ELSE c[k]]

\* l.cache[key] = value of unsafeSet, on a map that may be nil
unsafeSet(c, key, value) ==
    [k \in (DOMAIN c) \cup {key} |-> IF k = key THEN value ELSE c[k]]

\* a delete that empties the map
DeleteAll(c, key) == <<>>

\* delete(l.cache, key)
Delete(c, key) == [k \in (DOMAIN c) \ {key} |-> c[k]]

\* a keyIndex whose loop never finds the key
KeyFoundNever(keys, key) == FALSE

\* the loop of keyIndex: is key one of b.keys
KeyFound(keys, key) == \E i \in 1..Len(keys) : keys[i] = key

\* a keyIndex that returns the append position even for a key it found
KeyPosAlwaysAppendPos(keys, key) == Len(keys)

\* the position keyIndex returns (0-based, as in the code)
KeyPos(keys, key) ==
    IF KeyFound(keys, key)
    THEN Min({i \in 1..Len(keys) : keys[i] = key}) - 1
    ELSE Len(keys)

\* a capacity test that never holds
AtCapacityNever(mb, pos) == FALSE

\* a capacity test without l.maxBatch != 0
AtCapacityNoZeroTest(mb, pos) == pos >= mb - 1

\* a capacity test that is off by one: pos >= l.maxBatch
AtCapacityOffByOne(mb, pos) == mb # 0 /\ pos >= mb

\* the capacity test of keyIndex: l.maxBatch != 0 && pos >= l.maxBatch-1
AtCapacity(mb, pos) == mb # 0 /\ pos >= mb - 1

\* a startTimer that does not look at b.closing
TimerSkipsNever(bt) == FALSE

\* a startTimer that always takes the batch for closing
TimerSkipsAlways(bt) == TRUE

\* the test of startTimer: the batch is already being finalized
TimerSkips(bt) == bt.closing

\* an error loop that starts at the second element of batch.error
JoinErrorsSkipFirst(error) ==
    SelectSeq(SubSeq(error, 2, Len(error)), LAMBDA e : e # NilErr)

\* the loop of the thunk joining the non-nil errors of batch.error;
\* the empty sequence is the nil aggregate
JoinErrors(error) == SelectSeq(error, LAMBDA e : e # NilErr)

\* the positional read of the thunk: data stays nil when pos is out of range
DataAt(data, pos) == IF pos < Len(data) THEN data[pos + 1] ELSE NilVal

\* a cache hit thunk that returns nil instead of the captured value
HitResultNil(it) == [val |-> NilVal, err |-> <<>>]

\* the thunk returned on a cache hit: return it, nil
HitResult(it) == [val |-> it, err |-> <<>>]

\* a cache test that never finds the key
CachedNever(c, key) == FALSE

\* the test of LoadThunk and Prime: is key in l.cache
Cached(c, key) == key \in DOMAIN c

\* a batch that is created closing
NewBatchClosing ==
    [keys |-> <<>>, data |-> <<>>, error |-> <<>>, closing |-> TRUE,
     done |-> FALSE, closes |-> 0, timer |-> "none", ender |-> "none"]

\* a batch whose b.end goroutine is started at creation
NewBatchSpawned ==
    [keys |-> <<>>, data |-> <<>>, error |-> <<>>, closing |-> FALSE,
     done |-> FALSE, closes |-> 0, timer |-> "none", ender |-> "spawned"]

\* &genericLoaderBatch{done: make(chan struct{})}
NewBatch ==
    [keys |-> <<>>, data |-> <<>>, error |-> <<>>, closing |-> FALSE,
     done |-> FALSE, closes |-> 0, timer |-> "none", ender |-> "none"]

\* a keyIndex that puts a new key in front of b.keys
KeyIndexBatchPrepend(bt, key, mb) ==
    IF KeyFound(bt.keys, key) THEN bt
    ELSE LET pos == Len(bt.keys)
             b1 == [bt EXCEPT !.keys = <<key>> \o bt.keys,
                              !.timer = IF pos = 0 THEN "sleeping" ELSE bt.timer]
         IN  IF AtCapacity(mb, pos) /\ ~b1.closing
             THEN [b1 EXCEPT !.closing = TRUE, !.ender = "spawned"]
             ELSE b1

\* b.keyIndex(l, key) on batch record bt: the batch afterwards
KeyIndexBatch(bt, key, mb) ==
    IF KeyFound(bt.keys, key) THEN bt
    ELSE LET pos == Len(bt.keys)
             b1 == [bt EXCEPT !.keys = Append(bt.keys, key),
                              !.timer = IF pos = 0 THEN "sleeping" ELSE bt.timer]
         IN  IF AtCapacity(mb, pos) /\ ~b1.closing
             THEN [b1 EXCEPT !.closing = TRUE, !.ender = "spawned"]
             ELSE b1

\* a keyIndex that never executes l.batch = nil
KeyIndexDetachesNever(bt, key, mb) == FALSE

\* does this call of keyIndex execute l.batch = nil
KeyIndexDetaches(bt, key, mb) ==
    /\ ~KeyFound(bt.keys, key)
    /\ AtCapacity(mb, Len(bt.keys))
    /\ ~bt.closing

\* what a fetch may return for the key list it was given: the values aligned
\* with the keys and no error, the values one short and no error, or the
\* values with an error reported for the first key only
FetchResponses(keys, n) ==
    LET full  == [i \in 1..Len(keys) |-> FetchVal(keys[i], n)]
        noerr == [i \in 1..Len(keys) |-> NilErr]
    IN  {[data |-> full, error |-> noerr],
         [data |-> SubSeq(full, 1, Len(keys) - 1), error |-> noerr]}
        \cup {[data |-> full, error |-> [noerr EXCEPT ![1] = e]] : e \in FetchErrs}

\* a LoadAll over the key list keys that has attached nothing yet:
\* results, users and errs are made with len(keys) elements
NewLoadAll(keys) ==
    [keys |-> keys, results |-> <<>>,
     users |-> [i \in 1..Len(keys) |-> NilVal],
     errs |-> [i \in 1..Len(keys) |-> <<>>],
     resolved |-> 0]

\* no LoadAll is called in the run
NoLoadAll == NewLoadAll(<<>>)

\* the key lists handed to LoadAll
LoadAllInputs == UNION {[1..n -> Keys] : n \in 0..MaxLoadAll}

\* a LoadAll that stores every result in the first element
LoadAllStoreFirst(s, i, v) == [s EXCEPT ![1] = v]

\* users[i], errs[i] = thunk(): the store into element i (1-based here)
LoadAllStore(s, i, v) == [s EXCEPT ![i] = v]

\* ------------------------------------------------------------------- Init
Init ==
    /\ maxBatch \in MaxBatchChoices
    /\ cache = <<>>
    /\ batch = 0
    /\ mu = 0
    /\ batches = <<>>
    /\ thunks = <<>>
    /\ fetchLog = <<>>
    /\ cleared = {}
    /\ la = NoLoadAll

\* ---------------------------------------------------------------- actions
\* the body of LoadThunk(key) when key is cached
AttachHit(key) ==
    /\ mu = 0
    /\ Cached(cache, key)
    /\ thunks' = Append(thunks,
          [key |-> key, hit |-> TRUE, it |-> cache[key], batch |-> 0, pos |-> 0,
           resolved |-> FALSE, val |-> NilVal, err |-> <<>>])
    /\ UNCHANGED <<maxBatch, cache, batch, mu, batches, fetchLog>>
    /\ cleared' = cleared \ {key}

\* the body of LoadThunk(key) when key is not cached
AttachMiss(key) ==
    /\ mu = 0
    /\ ~Cached(cache, key)
    /\ LET b  == IF batch = 0 THEN Len(batches) + 1 ELSE batch
           bt == IF batch = 0 THEN NewBatch ELSE batches[batch]
           nb == KeyIndexBatch(bt, key, maxBatch)
       IN  /\ batches' = IF batch = 0 THEN Append(batches, nb)
                         ELSE [batches EXCEPT ![b] = nb]
           /\ batch' = IF KeyIndexDetaches(bt, key, maxBatch) THEN 0 ELSE b
           /\ thunks' = Append(thunks,
                 [key |-> key, hit |-> FALSE, it |-> NilVal, batch |-> b,
                  pos |-> KeyPos(bt.keys, key),
                  resolved |-> FALSE, val |-> NilVal, err |-> <<>>])
    /\ UNCHANGED <<maxBatch, cache, mu, fetchLog>>
    /\ cleared' = cleared \ {key}

\* LoadThunk(key) by a caller of its own, when key is cached
LoadThunkHit(key) ==
    /\ Len(thunks) < MaxThunks
    /\ AttachHit(key)
    /\ UNCHANGED la

\* LoadThunk(key) by a caller of its own, when key is not cached
LoadThunkMiss(key) ==
    /\ Len(thunks) < MaxThunks
    /\ batch = 0 => Len(batches) < MaxBatches
    /\ AttachMiss(key)
    /\ UNCHANGED la

\* a Prime that returns found instead of !found
PrimeReturnFound(c, key) == key \in DOMAIN c

\* a Prime that does not look for the key
PrimeReturnAlways(c, key) == TRUE

\* the value Prime returns: !found
PrimeReturn(c, key) == ~Cached(c, key)

\* Prime(key, value)
Prime(key, value) ==
    /\ mu = 0
    /\ cache' = IF PrimeReturn(cache, key) THEN unsafeSet(cache, key, value) ELSE cache
    /\ UNCHANGED <<maxBatch, batch, mu, batches, thunks, fetchLog, la>>
    /\ cleared' = cleared \ {key}

\* Clear(key)
Clear(key) ==
    /\ mu = 0
    /\ cache' = Delete(cache, key)
    /\ UNCHANGED <<maxBatch, batch, mu, batches, thunks, fetchLog, la>>
    /\ cleared' = cleared \cup {key}

\* l.fetch(b.keys) is entered by the goroutine running b.end
FetchCall(b) ==
    Append(fetchLog, [b |-> b, keys |-> batches[b].keys])

\* startTimer wakes and finds the batch closing: it returns
TimerSkip(b) ==
    /\ b \in 1..Len(batches)
    /\ batches[b].timer = "sleeping"
    /\ mu = 0
    /\ TimerSkips(batches[b])
    /\ batches' = [batches EXCEPT ![b].timer = "done"]
    /\ UNCHANGED <<maxBatch, cache, batch, mu, thunks, fetchLog, cleared, la>>

\* startTimer wakes, detaches the batch and enters b.end with the lock held
TimerFetch(b) ==
    /\ b \in 1..Len(batches)
    /\ batches[b].timer = "sleeping"
    /\ mu = 0
    /\ ~TimerSkips(batches[b])
    /\ mu' = b
    /\ batch' = 0
    /\ batches' = [batches EXCEPT ![b].timer = "fetching"]
    /\ fetchLog' = FetchCall(b)
    /\ UNCHANGED <<maxBatch, cache, thunks, cleared, la>>

\* a b.end that clears b.closing when it is done
EndFinishResetsClosing(bt, resp) ==
    [bt EXCEPT !.data = resp.data, !.error = resp.error,
               !.done = TRUE, !.closes = bt.closes + 1, !.closing = FALSE]

\* the rest of b.end: the results are stored and done is closed
EndFinish(bt, resp) ==
    [bt EXCEPT !.data = resp.data, !.error = resp.error,
               !.done = TRUE, !.closes = bt.closes + 1]

\* the fetch of startTimer's b.end returns; startTimer returns and unlocks
TimerReturn(b) ==
    /\ b \in 1..Len(batches)
    /\ batches[b].timer = "fetching"
    /\ \E resp \in FetchResponses(batches[b].keys, b) :
          batches' = [batches EXCEPT ![b] = [EndFinish(batches[b], resp)
                                               EXCEPT !.timer = "done"]]
    /\ mu' = 0
    /\ UNCHANGED <<maxBatch, cache, batch, thunks, fetchLog, cleared, la>>

\* the goroutine of "go b.end(l)" enters l.fetch; it holds no lock
EndFetch(b) ==
    /\ b \in 1..Len(batches)
    /\ batches[b].ender = "spawned"
    /\ batches' = [batches EXCEPT ![b].ender = "fetching"]
    /\ fetchLog' = FetchCall(b)
    /\ UNCHANGED <<maxBatch, cache, batch, mu, thunks, cleared, la>>

\* the fetch of "go b.end(l)" returns
EndReturn(b) ==
    /\ b \in 1..Len(batches)
    /\ batches[b].ender = "fetching"
    /\ \E resp \in FetchResponses(batches[b].keys, b) :
          batches' = [batches EXCEPT ![b] = [EndFinish(batches[b], resp)
                                               EXCEPT !.ender = "done"]]
    /\ UNCHANGED <<maxBatch, cache, batch, mu, thunks, fetchLog, cleared, la>>

\* the thunk of a cache hit, called
ThunkHit(t) ==
    /\ t \in 1..Len(thunks)
    /\ thunks[t].hit
    /\ thunks' = [thunks EXCEPT ![t].resolved = TRUE,
                                ![t].val = HitResult(thunks[t].it).val,
                                ![t].err = HitResult(thunks[t].it).err]
    /\ UNCHANGED <<maxBatch, cache, batch, mu, batches, fetchLog, cleared>>

\* the thunk of a cache miss, called when its batch reported an error
ThunkErr(t) ==
    /\ t \in 1..Len(thunks)
    /\ ~thunks[t].hit
    /\ LET bt == batches[thunks[t].batch]
       IN  /\ bt.done
           /\ JoinErrors(bt.error) # <<>>
           /\ thunks' = [thunks EXCEPT ![t].resolved = TRUE,
                                       ![t].val = DataAt(bt.data, thunks[t].pos),
                                       ![t].err = JoinErrors(bt.error)]
    /\ UNCHANGED <<maxBatch, cache, batch, mu, batches, fetchLog, cleared>>

\* the thunk of a cache miss, called when its batch reported no error
ThunkOk(t) ==
    /\ t \in 1..Len(thunks)
    /\ ~thunks[t].hit
    /\ LET bt == batches[thunks[t].batch]
       IN  /\ bt.done
           /\ JoinErrors(bt.error) = <<>>
           /\ mu = 0
           /\ cache' = unsafeSet(cache, thunks[t].key, DataAt(bt.data, thunks[t].pos))
           /\ thunks' = [thunks EXCEPT ![t].resolved = TRUE,
                                       ![t].val = DataAt(bt.data, thunks[t].pos),
                                       ![t].err = <<>>]
    /\ UNCHANGED <<maxBatch, batch, mu, batches, fetchLog, cleared>>

\* a caller of LoadThunk calls the thunk of a cache hit
ResolveHit(t) == ThunkHit(t) /\ UNCHANGED la

\* a caller of LoadThunk calls its thunk; the batch reported an error
ResolveErr(t) == ThunkErr(t) /\ UNCHANGED la

\* a caller of LoadThunk calls its thunk; the batch reported no error
ResolveOk(t) == ThunkOk(t) /\ UNCHANGED la

Next ==
    \/ \E k \in Keys : LoadThunkHit(k)
    \/ \E k \in Keys : LoadThunkMiss(k)
    \/ \E k \in Keys, v \in PrimeValues : Prime(k, v)
    \/ \E k \in Keys : Clear(k)
    \/ \E b \in 1..MaxBatches : TimerSkip(b)
    \/ \E b \in 1..MaxBatches : TimerFetch(b)
    \/ \E b \in 1..MaxBatches : TimerReturn(b)
    \/ \E b \in 1..MaxBatches : EndFetch(b)
    \/ \E b \in 1..MaxBatches : EndReturn(b)
    \/ \E t \in 1..MaxThunks : ResolveHit(t)
    \/ \E t \in 1..MaxThunks : ResolveErr(t)
    \/ \E t \in 1..MaxThunks : ResolveOk(t)

Spec == Init /\ [][Next]_vars

\* the state after construction when the run calls LoadAll(keys) or
\* LoadAllThunk(keys) for some key list
InitLoadAll ==
    /\ maxBatch \in MaxBatchChoices
    /\ cache = <<>>
    /\ batch = 0
    /\ mu = 0
    /\ batches = <<>>
    /\ thunks = <<>>
    /\ fetchLog = <<>>
    /\ cleared = {}
    /\ la \in {NewLoadAll(ks) : ks \in LoadAllInputs}

\* the first loop of LoadAll / LoadAllThunk: results[i] = l.LoadThunk(key),
\* the key being cached
LoadAllAttachHit ==
    /\ Len(la.results) < Len(la.keys)
    /\ AttachHit(la.keys[Len(la.results) + 1])
    /\ la' = [la EXCEPT !.results = Append(@, Len(thunks) + 1)]

\* the first loop of LoadAll / LoadAllThunk: results[i] = l.LoadThunk(key),
\* the key not being cached
LoadAllAttachMiss ==
    /\ Len(la.results) < Len(la.keys)
    /\ AttachMiss(la.keys[Len(la.results) + 1])
    /\ la' = [la EXCEPT !.results = Append(@, Len(thunks) + 1)]

\* what the second loop does to the caller's state once thunk number i has
\* returned
LoadAllStep(i) ==
    la' = [la EXCEPT
             !.resolved = i,
             !.users = LoadAllStore(@, i, thunks'[la.results[i]].val),
             !.errs = LoadAllStore(@, i, thunks'[la.results[i]].err)]

\* the second loop of LoadAll, or of the thunk of LoadAllThunk:
\* users[i], errs[i] = thunk(), for a cache hit thunk
LoadAllResolveHit ==
    /\ Len(la.results) = Len(la.keys)
    /\ la.resolved < Len(la.keys)
    /\ ThunkHit(la.results[la.resolved + 1])
    /\ LoadAllStep(la.resolved + 1)

\* the same for a thunk whose batch reported an error
LoadAllResolveErr ==
    /\ Len(la.results) = Len(la.keys)
    /\ la.resolved < Len(la.keys)
    /\ ThunkErr(la.results[la.resolved + 1])
    /\ LoadAllStep(la.resolved + 1)

\* the same for a thunk whose batch reported no error
LoadAllResolveOk ==
    /\ Len(la.results) = Len(la.keys)
    /\ la.resolved < Len(la.keys)
    /\ ThunkOk(la.results[la.resolved + 1])
    /\ LoadAllStep(la.resolved + 1)

\* a run of one LoadAll next to Prime, Clear and the goroutines of the batches
NextLoadAll ==
    \/ LoadAllAttachHit
    \/ LoadAllAttachMiss
    \/ LoadAllResolveHit
    \/ LoadAllResolveErr
    \/ LoadAllResolveOk
    \/ \E k \in Keys, v \in PrimeValues : Prime(k, v)
    \/ \E k \in Keys : Clear(k)
    \/ \E b \in 1..Len(batches) : TimerSkip(b)
    \/ \E b \in 1..Len(batches) : TimerFetch(b)
    \/ \E b \in 1..Len(batches) : TimerReturn(b)
    \/ \E b \in 1..Len(batches) : EndFetch(b)
    \/ \E b \in 1..Len(batches) : EndReturn(b)

SpecLoadAll == InitLoadAll /\ [][NextLoadAll]_vars

\* the keys of the capacity split scenario
SplitKeys == {1, 2, 3}

\* the key lists of the scenario: three distinct keys
SplitInputs ==
    {ks \in [1..3 -> SplitKeys] : \A i, j \in 1..3 : i # j => ks[i] # ks[j]}

\* the batch limits of the scenario
SplitMaxBatch == {1, 2}

\* a loader with a batch limit and an empty cache, on which LoadAll is called
\* with three distinct keys
InitSplit ==
    /\ maxBatch \in SplitMaxBatch
    /\ cache = <<>>
    /\ batch = 0
    /\ mu = 0
    /\ batches = <<>>
    /\ thunks = <<>>
    /\ fetchLog = <<>>
    /\ cleared = {}
    /\ la \in {NewLoadAll(ks) : ks \in SplitInputs}

\* the first loop of LoadAll has attached every key
AllAttached == Len(la.results) = Len(la.keys)

\* time.Sleep(l.wait) outlasts the attachment loop: a timer that wakes
\* after the last attachment and finds its batch closing
SplitTimerSkip(b) == AllAttached /\ TimerSkip(b)

\* a timer that wakes after the last attachment and fetches its batch
SplitTimerFetch(b) == AllAttached /\ TimerFetch(b)

\* LoadAll of three uncached keys attached back-to-back, no timer expiring
\* during the attachment; the b.end goroutines run whenever scheduled
NextSplit ==
    \/ LoadAllAttachMiss
    \/ LoadAllResolveErr
    \/ LoadAllResolveOk
    \/ \E b \in 1..Len(batches) : SplitTimerSkip(b)
    \/ \E b \in 1..Len(batches) : SplitTimerFetch(b)
    \/ \E b \in 1..Len(batches) : TimerReturn(b)
    \/ \E b \in 1..Len(batches) : EndFetch(b)
    \/ \E b \in 1..Len(batches) : EndReturn(b)

SpecSplit == InitSplit /\ [][NextSplit]_vars

\* every goroutine of a batch is scheduled, every fetch returns, and every
\* caller that holds a thunk calls it
Fairness ==
    /\ \A b \in 1..MaxBatches :
          /\ WF_vars(TimerSkip(b))
          /\ WF_vars(TimerFetch(b))
          /\ WF_vars(TimerReturn(b))
          /\ WF_vars(EndFetch(b))
          /\ WF_vars(EndReturn(b))
    /\ \A t \in 1..MaxThunks :
          /\ WF_vars(ResolveHit(t))
          /\ WF_vars(ResolveErr(t))
          /\ WF_vars(ResolveOk(t))

FairSpec == Spec /\ Fairness

\* the runs in which Clear is never called
NextNoClear ==
    \/ \E k \in Keys : LoadThunkHit(k)
    \/ \E k \in Keys : LoadThunkMiss(k)
    \/ \E k \in Keys, v \in PrimeValues : Prime(k, v)
    \/ \E b \in 1..MaxBatches : TimerSkip(b)
    \/ \E b \in 1..MaxBatches : TimerFetch(b)
    \/ \E b \in 1..MaxBatches : TimerReturn(b)
    \/ \E b \in 1..MaxBatches : EndFetch(b)
    \/ \E b \in 1..MaxBatches : EndReturn(b)
    \/ \E t \in 1..MaxThunks : ResolveHit(t)
    \/ \E t \in 1..MaxThunks : ResolveErr(t)
    \/ \E t \in 1..MaxThunks : ResolveOk(t)

SpecNoClear == Init /\ [][NextNoClear]_vars

\* ------------------------------------------------------------- properties
\* the invocations of l.fetch made for batch b
FetchesOf(b) == {i \in 1..Len(fetchLog) : fetchLog[i].b = b}

\* the goroutines of batch b have all returned
Quiescent(b) ==
    /\ batches[b].timer = "done"
    /\ batches[b].ender \in {"none", "done"}

\* C1: for every batch, whatever the interleaving of LoadThunk, the timer
\* goroutine and the capacity dispatch, fetch is invoked at most once and done
\* is closed at most once, and once the batch's goroutines have returned both
\* have happened exactly once.
C1_ExactlyOnce ==
    \A b \in 1..Len(batches) :
        /\ Cardinality(FetchesOf(b)) <= 1
        /\ batches[b].closes <= 1
        /\ batches[b].closes <= Cardinality(FetchesOf(b))
        /\ batches[b].done <=> batches[b].closes = 1
        /\ Quiescent(b) =>
              /\ Cardinality(FetchesOf(b)) = 1
              /\ batches[b].closes = 1

\* a batch closed by the capacity trigger whose timer woke afterwards
C1_Witness ==
    \E b \in 1..Len(batches) :
        /\ batches[b].timer = "done"
        /\ batches[b].ender = "done"
        /\ batches[b].closes = 1
        /\ Cardinality(FetchesOf(b)) = 1

\* C2: the index a cache-miss thunk captured is the index of its key in the
\* key list handed to fetch, and when fetch returned values aligned with its
\* keys the thunk resolves to the value returned at the index of its key.
C2_IndexOfKey ==
    \A t \in 1..Len(thunks) :
        ~thunks[t].hit =>
            LET b == thunks[t].batch
            IN  /\ \A i \in FetchesOf(b) :
                      /\ thunks[t].pos < Len(fetchLog[i].keys)
                      /\ fetchLog[i].keys[thunks[t].pos + 1] = thunks[t].key
                      /\ (thunks[t].resolved
                            /\ Len(batches[b].data) = Len(fetchLog[i].keys)) =>
                            \E j \in 1..Len(fetchLog[i].keys) :
                                /\ fetchLog[i].keys[j] = thunks[t].key
                                /\ thunks[t].val = batches[b].data[j]
                                /\ thunks[t].val = FetchVal(thunks[t].key, b)

\* two callers of the same key attached to one batch at the same index,
\* both resolved from aligned values
C2_Witness ==
    \E t, u \in 1..Len(thunks) :
        /\ t # u
        /\ ~thunks[t].hit /\ ~thunks[u].hit
        /\ thunks[t].batch = thunks[u].batch
        /\ thunks[t].key = thunks[u].key
        /\ thunks[t].resolved /\ thunks[u].resolved
        /\ thunks[t].val = FetchVal(thunks[t].key, thunks[t].batch)
        /\ thunks[u].val = thunks[t].val

\* C3: with maxBatch = M > 0 no fetch receives more than M keys: a batch
\* that holds M keys is no longer the current batch, so the next attachment
\* creates a new one.
C3_AtMostMaxBatch ==
    maxBatch > 0 =>
        /\ \A i \in 1..Len(fetchLog) : Len(fetchLog[i].keys) <= maxBatch
        /\ \A b \in 1..Len(batches) : Len(batches[b].keys) <= maxBatch
        /\ batch # 0 => Len(batches[batch].keys) < maxBatch

\* a full batch was fetched and a later key went to a second batch
C3_Witness ==
    /\ maxBatch > 0
    /\ Len(batches) = 2
    /\ \E i \in 1..Len(fetchLog) :
          /\ fetchLog[i].b = 1
          /\ Len(fetchLog[i].keys) = maxBatch
    /\ Len(batches[2].keys) >= 1

\* the thunk a step of LoadThunk has just returned
NewThunk == thunks'[Len(thunks')]

\* the step is a call of LoadThunk
IsLoadThunk == Len(thunks') = Len(thunks) + 1

\* the step invokes l.fetch
IsFetchCall == Len(fetchLog') = Len(fetchLog) + 1

\* batch.error holds a non-nil error
HasError(error) == \E i \in 1..Len(error) : error[i] # NilErr

\* C4 as stated: whenever fetch is invoked with a key list containing k, k is
\* not in the cache at that moment.
C4_NotCachedAtFetch ==
    [][IsFetchCall =>
          \A j \in 1..Len(fetchLog'[Len(fetchLog')].keys) :
              fetchLog'[Len(fetchLog')].keys[j] \notin DOMAIN cache]_vars

\* C4 amended: a key is attached to a batch only while it is absent from the
\* cache: a LoadThunk that returns a thunk on a batch, and every append to a
\* key list, happens for a key that is not cached at that moment, and a
\* LoadThunk of a cached key attaches nothing.
C4_NotCachedAtAttach ==
    [][/\ IsLoadThunk =>
             /\ ~NewThunk.hit <=> NewThunk.key \notin DOMAIN cache
             /\ NewThunk.key \in DOMAIN cache => batches' = batches
       /\ \A b \in 1..Len(batches') :
             (b > Len(batches) \/ batches'[b].keys # batches[b].keys) =>
                /\ IsLoadThunk
                /\ NewThunk.key \notin DOMAIN cache
                /\ batches'[b].keys[Len(batches'[b].keys)] = NewThunk.key]_vars

\* a key that was attached while uncached, cached afterwards, and then passed
\* to fetch
C4_Witness ==
    \E i \in 1..Len(fetchLog), t \in 1..Len(thunks) :
        /\ ~thunks[t].hit
        /\ thunks[t].batch = fetchLog[i].b
        /\ ~batches[fetchLog[i].b].done
        /\ thunks[t].key \in DOMAIN cache

\* C5: LoadThunk(k) on a cached k returns a thunk holding the value cached at
\* call time; the call leaves currentBatch, every batch, the cache and the
\* fetch calls untouched; the thunk can be resolved at any time, whatever
\* the batches and the lock are doing, to that value and a nil error.
C5_HitFrame ==
    /\ [][(IsLoadThunk /\ NewThunk.key \in DOMAIN cache) =>
             /\ NewThunk.hit
             /\ NewThunk.it = cache[NewThunk.key]
             /\ batch' = batch
             /\ batches' = batches
             /\ fetchLog' = fetchLog
             /\ cache' = cache]_vars
    /\ [](\A t \in 1..Len(thunks) :
             thunks[t].hit =>
                /\ ENABLED ResolveHit(t)
                /\ thunks[t].resolved =>
                      /\ thunks[t].val = thunks[t].it
                      /\ thunks[t].err = <<>>)

\* a cache hit thunk resolved to the value of call time while a batch is
\* still open and the key has been cleared since
C5_Witness ==
    \E t \in 1..Len(thunks) :
        /\ thunks[t].hit
        /\ thunks[t].resolved
        /\ thunks[t].val \in PrimeValues
        /\ thunks[t].key \notin DOMAIN cache
        /\ batch # 0
        /\ ~batches[batch].done

\* C6: when the errors returned for a batch hold a non-nil error, every
\* thunk of the batch resolves to a non-nil aggregate error, also for a key
\* whose own position holds a value and a nil error, and the resolution
\* leaves the cache as it is.
C6_ErrorBatch ==
    /\ [][\A t \in 1..Len(thunks) :
             (/\ ~thunks[t].hit
              /\ HasError(batches[thunks[t].batch].error)
              /\ thunks'[t] # thunks[t]) => cache' = cache]_vars
    /\ [](\A t \in 1..Len(thunks) :
             (/\ ~thunks[t].hit
              /\ thunks[t].resolved
              /\ HasError(batches[thunks[t].batch].error)) =>
                 thunks[t].err # <<>>)

\* a thunk whose own position holds a value and a nil error, resolved to the
\* aggregate error of its batch, its key not cached
C6_Witness ==
    \E t \in 1..Len(thunks) :
        /\ ~thunks[t].hit
        /\ thunks[t].resolved
        /\ thunks[t].err # <<>>
        /\ thunks[t].pos = 1
        /\ batches[thunks[t].batch].error[2] = NilErr
        /\ thunks[t].val = FetchVal(thunks[t].key, thunks[t].batch)
        /\ thunks[t].key \notin DOMAIN cache

\* thunk t of a cache miss has returned a nil error
ResolvedOk(t) ==
    /\ ~thunks[t].hit
    /\ thunks[t].resolved
    /\ thunks[t].err = <<>>

\* C7 as stated, for the runs without Clear: once a Load(k) has returned a
\* value with a nil error, k stays cached with that same value, which is what
\* a second Load(k) returns.
C7_SameValue ==
    \A t \in 1..Len(thunks) :
        ResolvedOk(t) =>
            /\ thunks[t].key \in DOMAIN cache
            /\ cache[thunks[t].key] = thunks[t].val

\* C7 amended, for the runs without Clear: a thunk resolving on an
\* error-free batch writes its value into the cache under its key; from then
\* on the key stays cached, so a second Load(k) is a cache hit, and the
\* cached value is the one the thunk returned unless a thunk of k attached to
\* another batch has resolved without error, and then it is that thunk's.
C7_WriteBack ==
    /\ [][\A t \in 1..Len(thunks) :
             (/\ ~thunks[t].hit
              /\ ~HasError(batches[thunks[t].batch].error)
              /\ thunks'[t] # thunks[t]) =>
                 /\ thunks[t].key \in DOMAIN cache'
                 /\ cache'[thunks[t].key] = thunks'[t].val]_vars
    /\ [](\A t \in 1..Len(thunks) :
             ResolvedOk(t) =>
                /\ thunks[t].key \in DOMAIN cache
                /\ \/ cache[thunks[t].key] = thunks[t].val
                   \/ \E u \in 1..Len(thunks) :
                         /\ ResolvedOk(u)
                         /\ thunks[u].key = thunks[t].key
                         /\ thunks[u].batch # thunks[t].batch
                         /\ cache[thunks[t].key] = thunks[u].val)

\* a Load that returned a fetched value without error, and a later Load of
\* the same key answered from the cache with that value
C7_Witness ==
    \E t, u \in 1..Len(thunks) :
        /\ t < u
        /\ ResolvedOk(t)
        /\ thunks[t].val = FetchVal(thunks[t].key, thunks[t].batch)
        /\ thunks[u].hit
        /\ thunks[u].key = thunks[t].key
        /\ thunks[u].resolved
        /\ thunks[u].val = thunks[t].val
        /\ Len(fetchLog) = 1

\* C8: after Clear(k) has returned, and until the next Prime(k) or Load(k),
\* k is not cached, so that the next Load(k) misses the cache and attaches k
\* to a batch whose fetch is still to be invoked.
C8_ClearedStaysCleared ==
    \A k \in cleared : k \notin DOMAIN cache

\* C9: Prime(k, v) returns true exactly when k is not cached; it then maps k
\* to v and leaves every other entry alone; when it returns false the cache
\* is unchanged; currentBatch and the batches are unchanged in both cases.
C9_Prime ==
    [][\A k \in Keys, v \in PrimeValues :
          Prime(k, v) =>
             /\ PrimeReturn(cache, k) <=> k \notin DOMAIN cache
             /\ k \notin DOMAIN cache =>
                   /\ DOMAIN cache' = DOMAIN cache \cup {k}
                   /\ cache'[k] = v
                   /\ \A j \in DOMAIN cache : cache'[j] = cache[j]
             /\ k \in DOMAIN cache => cache' = cache
             /\ batch' = batch
             /\ batches' = batches
             /\ thunks' = thunks
             /\ fetchLog' = fetchLog]_vars

\* a primed key next to a key cached by a thunk, while a batch is in flight
C9_Witness ==
    \E k, j \in DOMAIN cache :
        /\ cache[k] \in PrimeValues
        /\ cache[j] \notin PrimeValues
        /\ \E b \in 1..Len(batches) : ~batches[b].done

\* the elements of a key list are pairwise different
Distinct(keys) ==
    \A i, j \in 1..Len(keys) : keys[i] = keys[j] => i = j

\* C10: no key occurs twice in the key list of a batch or of a fetch call;
\* the thunks of one key on one batch share one index.
C10_NoDuplicateKey ==
    /\ \A b \in 1..Len(batches) : Distinct(batches[b].keys)
    /\ \A i \in 1..Len(fetchLog) : Distinct(fetchLog[i].keys)
    /\ \A t, u \in 1..Len(thunks) :
          (/\ ~thunks[t].hit /\ ~thunks[u].hit
           /\ thunks[t].batch = thunks[u].batch
           /\ thunks[t].key = thunks[u].key) => thunks[t].pos = thunks[u].pos

\* two loads of one key joined one open batch, fetched with that key once
C10_Witness ==
    \E t, u \in 1..Len(thunks), i \in 1..Len(fetchLog) :
        /\ t # u
        /\ ~thunks[t].hit /\ ~thunks[u].hit
        /\ thunks[t].batch = thunks[u].batch
        /\ thunks[t].key = thunks[u].key
        /\ fetchLog[i].b = thunks[t].batch
        /\ fetchLog[i].keys = <<thunks[t].key>>

\* LoadAll has returned (the thunk of LoadAllThunk has)
LoadAllDone == Len(la.results) = Len(la.keys) /\ la.resolved = Len(la.keys)

\* C11: LoadAll(keys) and the thunk of LoadAllThunk(keys) return two
\* sequences of length len(keys); element i is what the thunk of keys[i]
\* returns: the value cached at attachment for a cached key, else the value
\* at the index of keys[i] in its batch and the aggregate error of that
\* batch, whatever the batches the keys went to and the order they finished.
C11_LoadAllAligned ==
    LoadAllDone =>
        /\ Len(la.users) = Len(la.keys)
        /\ Len(la.errs) = Len(la.keys)
        /\ \A i \in 1..Len(la.keys) :
              LET t == thunks[la.results[i]]
              IN  /\ t.key = la.keys[i]
                  /\ t.hit => la.users[i] = t.it /\ la.errs[i] = <<>>
                  /\ ~t.hit =>
                        /\ batches[t.batch].keys[t.pos + 1] = la.keys[i]
                        /\ la.users[i] = DataAt(batches[t.batch].data, t.pos)
                        /\ la.errs[i] = JoinErrors(batches[t.batch].error)
                        /\ Len(batches[t.batch].data) = Len(batches[t.batch].keys)
                              => la.users[i] = FetchVal(la.keys[i], t.batch)

\* a LoadAll of two keys that went to two batches, the second batch fetched
\* first, each element holding the value fetched for its key
C11_Witness ==
    /\ LoadAllDone
    /\ Len(la.keys) = 2
    /\ Len(fetchLog) = 2
    /\ fetchLog[1].b = 2
    /\ thunks[la.results[1]].batch = 1
    /\ thunks[la.results[2]].batch = 2
    /\ la.users = <<FetchVal(la.keys[1], 1), FetchVal(la.keys[2], 2)>>

\* the fetch of batch b has been entered and has not returned
InFetch(b) == batches[b].timer = "fetching" \/ batches[b].ender = "fetching"

\* C12: no operation other than the resolution of a thunk blocks: while the
\* fetch of a batch is in progress, on the timeout path or on the capacity
\* path, Prime, Clear and LoadThunk can complete.
C12_NothingBlocks ==
    (\E b \in 1..Len(batches) : InFetch(b)) =>
        \A k \in Keys :
            /\ ENABLED Clear(k)
            /\ \A v \in PrimeValues : ENABLED Prime(k, v)
            /\ (Len(thunks) < MaxThunks /\ Len(batches) < MaxBatches)
                  => ENABLED (LoadThunkHit(k) \/ LoadThunkMiss(k))

\* C13: with fair scheduling and fetches that return, every batch that is
\* created has its fetch invoked and its done closed, and every thunk
\* returns.
C13_EventuallyDone ==
    /\ \A b \in 1..MaxBatches :
          (Len(batches) >= b) ~>
              (Len(batches) >= b /\ batches[b].done /\ Cardinality(FetchesOf(b)) = 1)
    /\ \A t \in 1..MaxThunks :
          (Len(thunks) >= t) ~> (Len(thunks) >= t /\ thunks[t].resolved)

\* two batches closed by the capacity trigger, fetched and done, their timers
\* returned, and both thunks returned
C13_Witness ==
    /\ Len(batches) = 2
    /\ Len(thunks) = 2
    /\ \A b \in 1..2 :
          /\ batches[b].done
          /\ batches[b].timer = "done"
          /\ batches[b].ender = "done"
          /\ Cardinality(FetchesOf(b)) = 1
    /\ \A t \in 1..2 : ~thunks[t].hit /\ thunks[t].resolved

\* the LoadThunk calls that missed the cache
MissCalls == {t \in 1..Len(thunks) : ~thunks[t].hit}

\* the number of keys appended to the first n batches
RECURSIVE Appended(_)
Appended(n) == IF n = 0 THEN 0 ELSE Appended(n - 1) + Len(batches[n].keys)

\* C14: the number of fetch invocations never exceeds the number of
\* attachments that appended a new key to a batch, hence never the number N
\* of LoadThunk calls that missed the cache, and it is at least 1 once the
\* goroutines of the batches of N >= 1 such calls have returned.
C14_FetchCount ==
    /\ Len(fetchLog) <= Len(batches)
    /\ Len(batches) <= Appended(Len(batches))
    /\ Appended(Len(batches)) <= Cardinality(MissCalls)
    /\ (MissCalls # {} /\ \A b \in 1..Len(batches) : Quiescent(b))
          => Len(fetchLog) >= 1

\* two calls that missed the cache for one key were coalesced into one batch
\* and one fetch, and the goroutines of the batch have returned
C14_Witness ==
    /\ Cardinality(MissCalls) = 2
    /\ Len(batches) = 1
    /\ Appended(1) = 1
    /\ Quiescent(1)
    /\ Len(fetchLog) = 1

\* C15: l.mu is never held while fetch runs: in every state in which the
\* fetch of some batch is in progress no goroutine holds l.mu.
C15_NoLockInFetch ==
    \A b \in 1..Len(batches) : InFetch(b) => mu = 0

\* batch b takes keys: its timer sleeps and it is not closing
Open(b) == batches[b].timer = "sleeping" /\ ~batches[b].closing

\* a LoadThunk step that missed the cache attached to batch b
AttachesTo(b) == IsLoadThunk /\ ~NewThunk.hit /\ NewThunk.batch = b

\* C16: at most one batch is attached to the loader: the batches that take
\* keys are exactly l.batch. Once detached a batch's key list never changes,
\* the key list passed to fetch is the key list of the detached batch, and
\* every later LoadThunk that misses attaches to another batch.
C16_DetachedFrozen ==
    /\ [](\A b \in 1..Len(batches) : Open(b) <=> batch = b)
    /\ [](batch \in 0..Len(batches))
    /\ [](\A i \in 1..Len(fetchLog) :
            /\ fetchLog[i].b # batch
            /\ fetchLog[i].keys = batches[fetchLog[i].b].keys)
    /\ [][\A b \in 1..Len(batches) :
            b # batch => /\ batches'[b].keys = batches[b].keys
                         /\ batch' # b
                         /\ ~AttachesTo(b)]_vars

\* a batch was detached and fetched, and a later LoadThunk that missed
\* attached to a second batch, which is the current one
C16_Witness ==
    /\ Len(batches) = 2
    /\ Len(fetchLog) >= 1
    /\ fetchLog[1].b = 1
    /\ batch = 2
    /\ Len(thunks) = 2
    /\ thunks[2].batch = 2

\* the keys of the first n LoadThunk calls attached to batch b, each once, in
\* the order of first attachment
RECURSIVE FirstAttached(_, _)
FirstAttached(b, n) ==
    IF n = 0 THEN <<>>
    ELSE LET prev == FirstAttached(b, n - 1)
             t == thunks[n]
         IN  IF ~t.hit /\ t.batch = b /\ \A i \in 1..Len(prev) : prev[i] # t.key
             THEN Append(prev, t.key)
             ELSE prev

\* C17: the distinct keys attached to a batch between its creation and its
\* detachment are delivered in one single fetch invocation whose key list
\* lists them in order of first attachment.
C17_OneFetchInOrder ==
    /\ \A b \in 1..Len(batches) :
          /\ batches[b].keys = FirstAttached(b, Len(thunks))
          /\ Cardinality(FetchesOf(b)) <= 1
          /\ Quiescent(b) => Cardinality(FetchesOf(b)) = 1
    /\ \A i \in 1..Len(fetchLog) :
          fetchLog[i].keys = FirstAttached(fetchLog[i].b, Len(thunks))

\* key 2 then key 1 were attached to one batch, and its one fetch was given
\* <<2, 1>>
C17_Witness ==
    /\ Len(thunks) = 2
    /\ thunks[1].key = 2 /\ thunks[2].key = 1
    /\ thunks[1].batch = 1 /\ thunks[2].batch = 1
    /\ Quiescent(1)
    /\ fetchLog = <<[b |-> 1, keys |-> <<2, 1>>]>>

\* the number of chunks of maxBatch keys the key list of LoadAll splits into
NumChunks == (Len(la.keys) + maxBatch - 1) \div maxBatch

\* chunk number j of the key list of LoadAll
Chunk(j) ==
    SubSeq(la.keys, (j - 1) * maxBatch + 1, Min({j * maxBatch, Len(la.keys)}))

C19_NoCapacityClose ==
    /\ [](maxBatch = 0 =>
            \A b \in 1..Len(batches) :
                /\ ~batches[b].closing
                /\ batches[b].ender = "none"
                /\ b # batch => batches[b].timer \in {"fetching", "done"}
                /\ FetchesOf(b) # {} => batches[b].timer \in {"fetching", "done"})
    /\ [][(maxBatch = 0 /\ IsLoadThunk /\ ~NewThunk.hit)
             => batch' = NewThunk.batch]_vars

\* maxBatch = 0: a batch took two distinct keys and was fetched by its timer
C19_Witness ==
    /\ maxBatch = 0
    /\ Len(batches) = 1
    /\ Len(batches[1].keys) = 2
    /\ batches[1].timer = "done"
    /\ batches[1].done
    /\ fetchLog = <<[b |-> 1, keys |-> batches[1].keys]>>

\* C20: on the capacity path and on the timeout path, closing is true by the
\* time the fetch of the batch is invoked.
C20_ClosingByFetch ==
    \A i \in 1..Len(fetchLog) : batches[fetchLog[i].b].closing

\* C20 as the code has it: closing is never reset once set; it is set by the
\* attachment that reaches maxBatch and by nothing else, with the lock free
\* for that LoadThunk to take; a batch is closing exactly when it has a b.end
\* goroutine of its own, so closing is true when that goroutine invokes
\* fetch, and false when the timer does.
C20_ClosingOneWay ==
    /\ [](\A b \in 1..Len(batches) :
            /\ batches[b].closing <=> batches[b].ender # "none"
            /\ batches[b].timer = "fetching" => ~batches[b].closing)
    /\ [][\A b \in 1..Len(batches) :
            /\ batches[b].closing => batches'[b].closing
            /\ batches'[b].closing # batches[b].closing
                  => mu = 0 /\ AttachesTo(b)]_vars
    /\ [][Len(batches') > Len(batches) /\ batches'[Len(batches')].closing
             => mu = 0 /\ AttachesTo(Len(batches'))]_vars

\* a batch closed by the capacity trigger has been fetched by its b.end
\* goroutine, its timer has woken and returned, and it is still closing
C20_Witness ==
    \E b \in 1..Len(batches) :
        /\ batches[b].closing
        /\ batches[b].ender = "done"
        /\ batches[b].timer = "done"
        /\ batches[b].done

\* thunk t returns in this step
Returns(t) == ~thunks[t].resolved /\ thunks'[t].resolved

\* thunk t waits on a batch whose fetch returned no error and fewer values
\* than the index t captured
OutOfRange(t) ==
    /\ ~thunks[t].hit
    /\ batches[thunks[t].batch].done
    /\ ~HasError(batches[thunks[t].batch].error)
    /\ thunks[t].pos >= Len(batches[thunks[t].batch].data)

\* C21: when fetch returns fewer values than the batch has keys and no
\* non-nil error, the thunk of a key whose index is out of range returns the
\* nil value and a nil error and stores the nil value in the cache under its
\* key; a LoadThunk of a key cached with the nil value is a cache hit that
\* returns the nil value and changes no batch and invokes no fetch.
C21_ShortData ==
    /\ [][\A t \in 1..Len(thunks) :
            (OutOfRange(t) /\ Returns(t)) =>
                /\ thunks'[t].val = NilVal
                /\ thunks'[t].err = <<>>
                /\ thunks[t].key \in DOMAIN cache'
                /\ cache'[thunks[t].key] = NilVal]_vars
    /\ [][(/\ IsLoadThunk
           /\ NewThunk.key \in DOMAIN cache
           /\ cache[NewThunk.key] = NilVal) =>
              /\ NewThunk.hit
              /\ NewThunk.it = NilVal
              /\ batches' = batches
              /\ batch' = batch
              /\ fetchLog' = fetchLog]_vars
    /\ [](\A t \in 1..Len(thunks) :
            (thunks[t].hit /\ thunks[t].it = NilVal /\ thunks[t].resolved) =>
                thunks[t].val = NilVal /\ thunks[t].err = <<>>)

\* the fetch of a batch returned no value for the key of a thunk; the thunk
\* returned nil and a nil error, and a second Load of the key was answered
\* nil from the cache, with one fetch invocation in all
C21_Witness ==
    \E t, u \in 1..Len(thunks) :
        /\ t < u
        /\ OutOfRange(t)
        /\ thunks[t].resolved
        /\ thunks[t].val = NilVal
        /\ thunks[t].err = <<>>
        /\ thunks[u].key = thunks[t].key
        /\ thunks[u].hit
        /\ thunks[u].resolved
        /\ thunks[u].val = NilVal
        /\ Len(fetchLog) = 1

\* C22: whenever l.mu is free and l.batch is non-nil, that batch is open: it
\* has at least one key, it is not closing, its fetch has not been invoked,
\* its done is not closed, and with maxBatch > 0 it has fewer than maxBatch
\* keys. So keyIndex never runs on a closing batch, and fetch is never given
\* an empty key list.
C22_CurrentBatchOpen ==
    /\ []((mu = 0 /\ batch # 0) =>
            /\ batch \in 1..Len(batches)
            /\ Len(batches[batch].keys) >= 1
            /\ ~batches[batch].closing
            /\ FetchesOf(batch) = {}
            /\ ~batches[batch].done
            /\ maxBatch > 0 => Len(batches[batch].keys) < maxBatch)
    /\ [](\A i \in 1..Len(fetchLog) : fetchLog[i].keys # <<>>)
    /\ [][\A b \in 1..Len(batches) :
            AttachesTo(b) => batch = b /\ ~batches[b].closing]_vars

\* maxBatch = 2: an earlier batch was fetched and the lock is free; the
\* current batch holds one key, and nothing has been done with it
C22_Witness ==
    /\ maxBatch = 2
    /\ mu = 0
    /\ batch = 2
    /\ Len(batches[2].keys) = 1
    /\ batches[1].done
    /\ FetchesOf(2) = {}

\* the timer of batch b wakes in this step
TimerWakes(b) == batches[b].timer = "sleeping" /\ batches'[b].timer # "sleeping"

\* C23: when the timer of batch b wakes and finds b.closing false, l.batch is
\* b, so its l.batch = nil detaches b itself; when it finds b.closing true it
\* leaves l.batch alone, so a batch created after b was closed by the
\* capacity trigger is never detached by the timer of b.
C23_TimerDetachesOwn ==
    [][\A b \in 1..Len(batches) :
          TimerWakes(b) =>
             IF batches[b].closing
             THEN batch' = batch /\ fetchLog' = fetchLog
             ELSE batch = b /\ batch' = 0]_vars

\* maxBatch = 2: the first batch was closed by the capacity trigger, a later
\* batch is the current one, the timer of the first batch has woken and
\* returned, and the later batch is still the current one
C23_Witness ==
    /\ maxBatch = 2
    /\ Len(batches) = 2
    /\ batches[1].closing
    /\ batches[1].timer = "done"
    /\ batch = 2
    /\ Open(2)

\* the entry of key k is the same before and after the step
SameEntry(k) ==
    /\ k \in DOMAIN cache <=> k \in DOMAIN cache'
    /\ k \in DOMAIN cache => cache'[k] = cache[k]

\* the step is a Clear(k) that removed the entry of k
ClearStep(k) ==
    /\ k \in DOMAIN cache
    /\ k \notin DOMAIN cache'
    /\ cleared' = cleared \cup {k}
    /\ thunks' = thunks

\* the step is the return of a thunk of key k, attached to a batch without
\* error, that wrote its value under k (a thunk can be called again after it
\* has returned, and writes again)
WriteBackStep(k) ==
    \E t \in 1..Len(thunks) :
        /\ thunks'[t].resolved
        /\ thunks' = [thunks EXCEPT ![t] = thunks'[t]]
        /\ batches' = batches
        /\ fetchLog' = fetchLog
        /\ cleared' = cleared
        /\ thunks[t].key = k
        /\ ~thunks[t].hit
        /\ batches[thunks[t].batch].done
        /\ ~HasError(batches[thunks[t].batch].error)
        /\ k \in DOMAIN cache'
        /\ cache'[k] = thunks'[t].val

\* C24: once k is cached with value v, by Prime or by the write-back of a
\* thunk, the cached value of k stays v until Clear(k): no step other than
\* Clear(k) changes the entry of a cached key.
C24_CachedUntilClear ==
    [][\A k \in DOMAIN cache : SameEntry(k) \/ ClearStep(k)]_vars

\* C24 as the code has it: the entry of a cached key k is changed by
\* Clear(k), which removes it, and by the return of a thunk of k attached to
\* a batch without error, which replaces the value by its own, a primed
\* value included; Prime and every other step leave it alone.
C24_CachedUntilClearOrWriteBack ==
    [][\A k \in DOMAIN cache :
          SameEntry(k) \/ ClearStep(k) \/ WriteBackStep(k)]_vars

\* a thunk of k was attached, then k was primed and a Load of k was answered
\* with the primed value, then the thunk returned its fetched value, which
\* is now the cached value of k
C24_Witness ==
    \E t, u \in 1..Len(thunks) :
        /\ t < u
        /\ thunks[t].key = thunks[u].key
        /\ ResolvedOk(t)
        /\ thunks[u].hit
        /\ thunks[u].it \in PrimeValues
        /\ thunks[t].key \in DOMAIN cache
        /\ cache[thunks[t].key] = thunks[t].val
        /\ cache[thunks[t].key] = FetchVal(thunks[t].key, thunks[t].batch)

\* the step changes no entry of the cache but that of key k
OnlyEntry(k) == \A j \in (DOMAIN cache \cup DOMAIN cache') \ {k} : SameEntry(j)

\* the step is a Prime(k, v) that stored v under the absent key k
PrimeStep(k) ==
    /\ k \notin DOMAIN cache
    /\ k \in DOMAIN cache'
    /\ cache'[k] \in PrimeValues
    /\ thunks' = thunks
    /\ batches' = batches

\* C25: the cache is changed only by Prime, by Clear and by the return of a
\* thunk of a batch without error, each changing the entry of its own key
\* only; LoadThunk (creating a batch, attaching a key, dispatching b.end),
\* the timers, the fetch invocations and their returns, and the thunks of
\* cache hits and of batches with an error leave it unchanged. So every
\* cached value was primed or returned by a thunk: a key that was fetched
\* but whose thunk did not return is not cached by that.
C25_CacheFrame ==
    /\ [][cache' # cache =>
            \E k \in Keys :
                /\ OnlyEntry(k)
                /\ PrimeStep(k) \/ ClearStep(k) \/ WriteBackStep(k)]_vars
    /\ [][(IsLoadThunk \/ IsFetchCall \/ batches' # batches) => cache' = cache]_vars
    /\ [][\A t \in 1..Len(thunks) :
            (/\ Returns(t)
             /\ thunks[t].hit \/ HasError(batches[thunks[t].batch].error))
                => cache' = cache]_vars
    /\ [](\A k \in DOMAIN cache :
            \/ cache[k] \in PrimeValues
            \/ \E t \in 1..Len(thunks) :
                  ResolvedOk(t) /\ thunks[t].key = k /\ thunks[t].val = cache[k])

\* the fetch of a batch returned the value of a key and no error, the thunk
\* of the key has not returned, and the key is not cached, while another key
\* is
C25_Witness ==
    \E t \in 1..Len(thunks) :
        /\ ~thunks[t].hit
        /\ ~thunks[t].resolved
        /\ batches[thunks[t].batch].done
        /\ ~HasError(batches[thunks[t].batch].error)
        /\ thunks[t].pos < Len(batches[thunks[t].batch].data)
        /\ thunks[t].key \notin DOMAIN cache
        /\ cache # <<>>

====
